---- MODULE Spec2Model ----
(***************************************************************************)
(* Stable-storage persistence and chunked backup/restore of metamagic.     *)
(*                                                                         *)
(*   ic-canister-stable-storage : header codec, data-format adapters,      *)
(*                                layouts v1/v2, canister interface        *)
(*   dscvr-canister-agent       : CanisterAgent::backup_stable_storage and *)
(*                                CanisterAgent::restore_stable_storage    *)
(*                                                                         *)
(* Three specifications share the module:                                  *)
(*   SpecHeader : Header::as_bytes / Header::new_from_reader(_async)       *)
(*   SpecV2     : v2::save / v2::restore on a seekable writer              *)
(*   Spec       : the agent's transfer against the canister, followed by   *)
(*                the canister's own save / restore cycle                  *)
(***************************************************************************)
EXTENDS Naturals, Integers, Sequences, FiniteSets, TLC

VARIABLES
    \* ---- SpecHeader
    hpc, hin, hbytes, hout,
    \* ---- SpecV2
    wpc, win, wbuf, wpos, wsave, wout,
    \* ---- Spec: the canister (remote)
    stable, HEADER, TRANSIENT, STORED_SCHEMA_VERSION, app_state, cfg, last_op,
    \* ---- Spec: the agent
    op, pc, error, header, len, out_of_order,
    reader, reader_pos, restore_offset, next_offset, tasks, uploaded, reapplied,
    set_flag_sent, calls,
    next_idx, queue, writer, total_written, flushed, fetch_failed, short_reply, sink

headerVars   == <<hpc, hin, hbytes, hout>>
v2Vars       == <<wpc, win, wbuf, wpos, wsave, wout>>
canisterVars == <<stable, HEADER, TRANSIENT, STORED_SCHEMA_VERSION, app_state, cfg, last_op>>
commonVars   == <<op, error, header, len, out_of_order>>
restoreVars  == <<reader, reader_pos, restore_offset, next_offset, tasks, uploaded,
                  reapplied, set_flag_sent, calls>>
backupVars   == <<next_idx, queue, writer, total_written, flushed, fetch_failed,
                  short_reply, sink>>
agentVars    == <<pc, commonVars, restoreVars, backupVars>>
vars         == <<headerVars, v2Vars, canisterVars, agentVars>>

(***************************************************************************)
(* Bounds of the model and program constants.                              *)
(***************************************************************************)

\* Longest Vec<u8> used as the application state.
MaxLen == 2

\* header.rs: size_of::<u64>()
U64_SIZE == 8

\* header.rs: FieldIndex::NumFields
NumFields == 4

\* stable_storage_restore_backup.rs: BACKUP_CHUNK_SIZE (1024 * 1024 * 5 / 2),
\* scaled down so that a snapshot of a few dozen bytes spans several windows.
BACKUP_CHUNK_SIZE == 16

\* stable_storage_restore_backup.rs: RESTORE_CHUNK_SIZE (2096000), scaled down.
RESTORE_CHUNK_SIZE == 4

\* stable_storage_restore_backup.rs: .buffered(10) and .try_buffer_unordered(10),
\* scaled down so that more windows exist than may be in flight.
BufferLimit == 2

\* stable_storage_restore_backup.rs: retry_strategy ... .take(5)
RetryTake == 5

\* lib.rs: WASM_PAGE_SIZE_IN_BYTES (64 * 1024), scaled down.
WASM_PAGE_SIZE_IN_BYTES == 64

\* How many times the remote may execute the upload of one window (a request whose
\* reply was lost is retried by the agent but may already have been executed).
MaxApply == 2

Byte == 0..255

Min(a, b) == IF a < b THEN a ELSE b

Zeros(n) == [i \in 1..n |-> 0]

\* bytes[from .. from+n) of a 0-based byte array held as a 1-based sequence
Slice(bytes, from, n) == SubSeq(bytes, from + 1, from + n)

(***************************************************************************)
(* u64 <-> little-endian bytes (u64::to_le_bytes, u64::from_le_bytes).     *)
(***************************************************************************)
RECURSIVE LeBytes(_, _)
LeBytes(v, n) == IF n = 0 THEN <<>> ELSE <<v % 256>> \o LeBytes(v \div 256, n - 1)

ToLeBytes(v) == LeBytes(v, U64_SIZE)

\* TLC's integers are 32 bits wide: a word with a non-zero byte above the
\* third is read as TooLarge, which is beyond every length and count of the model.
TooLarge == 256 * 65536

FromLeBytes(bytes) ==
    IF \E i \in 4..Len(bytes) : bytes[i] # 0
    THEN TooLarge
    ELSE bytes[1] + 256 * bytes[2] + 65536 * bytes[3]

(***************************************************************************)
(* data_format.rs: DataFormatType (#[repr(u64)]) and From<u64>.            *)
(***************************************************************************)
DataFormatType == {"Unknown", "MsgPack", "Bincode"}

FormatAsU64(f) ==
    CASE f = "Unknown" -> 0
      [] f = "MsgPack" -> 1
      [] f = "Bincode" -> 2

FormatFromU64(value) ==
    CASE value = 1 -> "MsgPack"
      [] value = 2 -> "Bincode"
      [] OTHER     -> "Unknown"

(***************************************************************************)
(* header.rs: Header.                                                      *)
(***************************************************************************)
MkHeader(hl, cl, cf, sv, pic) ==
    [header_length |-> hl, content_length |-> cl, content_format |-> cf,
     content_schema_version |-> sv, pre_upgrade_instruction_count |-> pic]

\* #[derive(Default)]
DefaultHeader == MkHeader(0, 0, "Unknown", 0, 0)

new_from_format_and_schema(format, schema_version) ==
    MkHeader(NumFields, 0, format, schema_version, 0)

\* as_bytes with content_schema_version and pre_upgrade_instruction_count swapped
as_bytes_fields_swapped(h) ==
    ToLeBytes(NumFields) \o ToLeBytes(h.content_length)
        \o ToLeBytes(FormatAsU64(h.content_format))
        \o ToLeBytes(h.pre_upgrade_instruction_count)
        \o ToLeBytes(h.content_schema_version)

\* Header::as_bytes: the first word is FieldIndex::NumFields, not self.header_length
as_bytes(h) ==
    ToLeBytes(NumFields) \o ToLeBytes(h.content_length)
        \o ToLeBytes(FormatAsU64(h.content_format))
        \o ToLeBytes(h.content_schema_version)
        \o ToLeBytes(h.pre_upgrade_instruction_count)

num_all_fields_bytes(h) == (NumFields + 1) * U64_SIZE

\* a region size that counts all the fields as_bytes writes
num_content_and_header_bytes_all_fields(h) ==
    NumFields * U64_SIZE + U64_SIZE + h.content_length

num_content_and_header_bytes(h) ==
    h.header_length * U64_SIZE + U64_SIZE + h.content_length

\* Header::bytes_to_u64
bytes_to_u64(bytes, count) ==
    [i \in 1..count |-> FromLeBytes(Slice(bytes, (i - 1) * U64_SIZE, U64_SIZE))]

\* Header::new_from_vec. `fields` is 1-based here: fields[k + 1] is the source's
\* fields[k]. Indexing past the end of the Vec panics.
new_from_vec(fields) ==
    IF Len(fields) < 2 THEN [kind |-> "panic"]
    ELSE LET content_format == FormatFromU64(fields[2]) IN
         IF content_format = "Unknown"
         THEN IF Len(fields) < 4 THEN [kind |-> "panic"]
              ELSE [kind |-> "err", error |-> <<"InvalidContentFormat", fields[4]>>]
         ELSE IF Len(fields) < 4 THEN [kind |-> "panic"]
              ELSE [kind |-> "ok",
                    header |-> MkHeader(Len(fields), fields[1], content_format,
                                        fields[3], fields[4])]

\* a length check that lets one field too many through
HeaderLengthTooLarge_off_by_one(header_length) == header_length > NumFields + 1

\* if header_length > FieldIndex::NumFields as u64
HeaderLengthTooLarge(header_length) == header_length > NumFields

\* Header::new_from_reader on the bytes `buf`, the reader standing at `pos`.
\* `pos` in the result is the reader's position afterwards (unspecified, and not
\* used, after a failed read_exact).
new_from_reader(buf, pos) ==
    IF Len(buf) < pos + U64_SIZE
    THEN [kind |-> "err", error |-> <<"Io">>, pos |-> pos]
    ELSE LET header_length == FromLeBytes(Slice(buf, pos, U64_SIZE)) IN
         IF HeaderLengthTooLarge(header_length)
         THEN [kind |-> "err",
               error |-> <<"InvalidHeaderLength", header_length, NumFields>>,
               pos |-> pos + U64_SIZE]
         ELSE IF Len(buf) < pos + U64_SIZE + header_length * U64_SIZE
              THEN [kind |-> "err", error |-> <<"Io">>, pos |-> pos + U64_SIZE]
              ELSE LET fields == bytes_to_u64(
                                    Slice(buf, pos + U64_SIZE, header_length * U64_SIZE),
                                    header_length)
                       r == new_from_vec(fields)
                   IN  r @@ [pos |-> pos + U64_SIZE + header_length * U64_SIZE]

\* Header::new_from_reader_async: the same steps on an AsyncRead.
new_from_reader_async(buf, pos) ==
    IF Len(buf) < pos + U64_SIZE
    THEN [kind |-> "err", error |-> <<"Io">>, pos |-> pos]
    ELSE LET header_length == FromLeBytes(Slice(buf, pos, U64_SIZE)) IN
         IF HeaderLengthTooLarge(header_length)
         THEN [kind |-> "err",
               error |-> <<"InvalidHeaderLength", header_length, NumFields>>,
               pos |-> pos + U64_SIZE]
         ELSE IF Len(buf) < pos + U64_SIZE + header_length * U64_SIZE
              THEN [kind |-> "err", error |-> <<"Io">>, pos |-> pos + U64_SIZE]
              ELSE LET fields == bytes_to_u64(
                                    Slice(buf, pos + U64_SIZE, header_length * U64_SIZE),
                                    header_length)
                       r == new_from_vec(fields)
                   IN  r @@ [pos |-> pos + U64_SIZE + header_length * U64_SIZE]

(***************************************************************************)
(* The application state T is a Vec<u8> with elements below 128.           *)
(***************************************************************************)
Elems == {1, 2}

Values == UNION {[1..n -> Elems] : n \in 0..MaxLen}

\* Transient (#[derive(Default)])
DefaultTransient == [skip_next_save |-> FALSE, post_upgrade_instruction_count |-> 0]

(***************************************************************************)
(* data_format.rs: the adapters.  MsgPackAdapter is rmp_serde: a Vec<u8>   *)
(* is a fixarray (0x90 | n, n <= 15) of integers, each a positive fixint   *)
(* (one byte, < 0x80) or 0xcc followed by the byte.  BincodeAdapter is     *)
(* bincode with fixed-width integers: a u64 little-endian length followed  *)
(* by the bytes.                                                           *)
(***************************************************************************)
MsgPackSerialize(t) == <<144 + Len(t)>> \o t

BincodeSerialize(t) == ToLeBytes(Len(t)) \o t

\* one msgpack integer at `pos`: <<ok, value, next position>>
MsgPackReadU8(buf, pos) ==
    IF Len(buf) < pos + 1 THEN <<FALSE, 0, pos>>
    ELSE IF buf[pos + 1] < 128 THEN <<TRUE, buf[pos + 1], pos + 1>>
    ELSE IF buf[pos + 1] = 204 /\ Len(buf) >= pos + 2 THEN <<TRUE, buf[pos + 2], pos + 2>>
    ELSE <<FALSE, 0, pos>>

RECURSIVE MsgPackReadElems(_, _, _, _)
MsgPackReadElems(buf, pos, n, acc) ==
    IF n = 0 THEN [kind |-> "ok", t |-> acc, pos |-> pos]
    ELSE LET e == MsgPackReadU8(buf, pos) IN
         IF e[1] THEN MsgPackReadElems(buf, e[3], n - 1, Append(acc, e[2]))
         ELSE [kind |-> "err", error |-> <<"MsgPackDecodeError">>, pos |-> pos]

MsgPackDeserialize(buf, pos) ==
    IF Len(buf) < pos + 1
    THEN [kind |-> "err", error |-> <<"MsgPackDecodeError">>, pos |-> pos]
    ELSE LET marker == buf[pos + 1] IN
         IF marker >= 144 /\ marker <= 159
         THEN MsgPackReadElems(buf, pos + 1, marker - 144, <<>>)
         ELSE [kind |-> "err", error |-> <<"MsgPackDecodeError">>, pos |-> pos + 1]

BincodeDeserialize(buf, pos) ==
    IF Len(buf) < pos + U64_SIZE
    THEN [kind |-> "err", error |-> <<"BincodeError">>, pos |-> pos]
    ELSE LET n == FromLeBytes(Slice(buf, pos, U64_SIZE)) IN
         IF Len(buf) < pos + U64_SIZE + n
         THEN [kind |-> "err", error |-> <<"BincodeError">>, pos |-> pos + U64_SIZE]
         ELSE [kind |-> "ok", t |-> Slice(buf, pos + U64_SIZE, n),
               pos |-> pos + U64_SIZE + n]

(***************************************************************************)
(* A seekable writer over a growable byte buffer (Cursor<Vec<u8>>, a file, *)
(* StableWriter): writing past the end zero-fills the gap.                 *)
(***************************************************************************)
WriteAt(buf, pos, bytes) ==
    LET padded == IF Len(buf) < pos THEN buf \o Zeros(pos - Len(buf)) ELSE buf
        last   == pos + Len(bytes)
        newlen == IF Len(padded) < last THEN last ELSE Len(padded)
    IN  [i \in 1..newlen |->
            IF i > pos /\ i <= last THEN bytes[i - pos] ELSE padded[i]]

(***************************************************************************)
(* v2.rs: save.                                                            *)
(***************************************************************************)
\* a save that never looks at the flag
SkipsSave_never(transient) == FALSE

\* v2.rs:32  if transient.skip_next_save { ... } else { ... }
SkipsSave(transient) == transient.skip_next_save

\* v2.rs:41  writer.seek(SeekFrom::Start(start_pos + header_len))
ContentStart(start_pos, header_len) == start_pos + header_len

\* the content length measured from the frame start, the header included
MeasuredContentLength_from_start(content_end_pos, start_pos, header_len) ==
    content_end_pos - start_pos

\* v2.rs:59  header.content_length = content_end_pos - start_pos - header_len
MeasuredContentLength(content_end_pos, start_pos, header_len) ==
    content_end_pos - start_pos - header_len

\* a writer that accepts `budget` more bytes and then fails: what a failing write or
\* write_all leaves behind is the bytes it accepted
NoLimit == TooLarge

Accepted(bytes, budget) == SubSeq(bytes, 1, Min(Len(bytes), budget))

WriteSome(buf, pos, bytes) == IF bytes = <<>> THEN buf ELSE WriteAt(buf, pos, bytes)

\* the result: the writer afterwards and Ok(()) or Err(..)
v2_save(buf, pos, t, h, transient, instruction_counter, budget) ==
    IF SkipsSave(transient)
    THEN [buf |-> buf, pos |-> pos, kind |-> "ok"]
    ELSE LET header_len  == num_all_fields_bytes(h)
             start_pos   == pos
             content_pos == ContentStart(start_pos, header_len)
         IN
         IF h.content_format \notin {"MsgPack", "Bincode"}
         THEN [buf |-> buf, pos |-> content_pos, kind |-> "err",
               error |-> <<"InvalidContentFormat", FormatAsU64(h.content_format)>>]
         ELSE LET content == IF h.content_format = "MsgPack"
                             THEN MsgPackSerialize(t) ELSE BincodeSerialize(t)
                  buf1 == WriteSome(buf, content_pos, Accepted(content, budget))
                  content_end_pos == content_pos + Len(content)
                  h1 == [h EXCEPT
                           !.content_length =
                               MeasuredContentLength(content_end_pos, start_pos, header_len),
                           !.pre_upgrade_instruction_count = instruction_counter]
                  hb == as_bytes(h1)
                  left == budget - Len(content)
              IN  IF Len(content) > budget
                  THEN [buf |-> buf1, pos |-> content_pos + budget, kind |-> "err",
                        error |-> <<"Io">>]
                  ELSE IF Len(hb) > left
                  THEN [buf |-> WriteSome(buf1, start_pos, Accepted(hb, left)),
                        pos |-> start_pos + left, kind |-> "err", error |-> <<"Io">>]
                  ELSE [buf |-> WriteAt(buf1, start_pos, hb),
                        pos |-> start_pos + Len(hb), kind |-> "ok"]

(***************************************************************************)
(* v2.rs: restore.  `version` is the migration layer's STORED_SCHEMA_VERSION *)
(* before the call; the result carries its value afterwards.               *)
(***************************************************************************)
\* a restore that rejects a frame whose stored length differs
OnLengthMismatch_fails(content_length, header_content_length) == "err"

\* v2.rs:101-106  if content_length != header.content_length { warn!(..) }
OnLengthMismatch(content_length, header_content_length) == "warn"

\* a restore that leaves the stored schema version alone
set_stored_schema_version_skipped(stored, version) == stored

\* migration.rs: set_stored_schema_version; `stored` is STORED_SCHEMA_VERSION before
set_stored_schema_version(stored, version) == version

v2_restore(buf, pos, instruction_counter, version) ==
    LET hr == new_from_reader(buf, pos) IN
    IF hr.kind # "ok"
    THEN [kind |-> hr.kind, error |-> IF hr.kind = "err" THEN hr.error ELSE <<"panic">>,
          version |-> version, pos |-> hr.pos]
    ELSE LET h == hr.header
             active == set_stored_schema_version(version, h.content_schema_version)
             content_start_pos == hr.pos
             d == IF h.content_format = "MsgPack"
                  THEN MsgPackDeserialize(buf, content_start_pos)
                  ELSE BincodeDeserialize(buf, content_start_pos)
         IN
         IF d.kind # "ok"
         THEN [kind |-> "err", error |-> d.error,
               version |-> active, pos |-> d.pos]
         ELSE IF /\ d.pos - content_start_pos # h.content_length
                 /\ OnLengthMismatch(d.pos - content_start_pos, h.content_length) = "err"
         THEN [kind |-> "err", error |-> <<"UnexpectedContentLength">>,
               version |-> active, pos |-> d.pos]
         ELSE [kind |-> "ok", header |-> h,
               transient |-> [skip_next_save |-> FALSE,
                              post_upgrade_instruction_count |-> instruction_counter],
               t |-> d.t, version |-> active, pos |-> d.pos,
               content_length |-> d.pos - content_start_pos]

(***************************************************************************)
(* v1.rs: save and restore.  The V1 layout is the MsgPack encoding alone.  *)
(***************************************************************************)
v1_save(buf, pos, t) ==
    LET content == MsgPackSerialize(t)
    IN  [buf |-> WriteAt(buf, pos, content), pos |-> pos + Len(content), kind |-> "ok"]

\* content_length is reader.stream_position() after the decode
v1_restore(buf, pos, instruction_counter) ==
    LET d == MsgPackDeserialize(buf, pos) IN
    IF d.kind # "ok"
    THEN [kind |-> "err", error |-> d.error, pos |-> d.pos]
    ELSE [kind |-> "ok",
          header |-> [DefaultHeader EXCEPT !.content_length = d.pos,
                                           !.content_format = "MsgPack"],
          transient |-> [skip_next_save |-> FALSE,
                         post_upgrade_instruction_count |-> instruction_counter],
          t |-> d.t, pos |-> d.pos]

(***************************************************************************)
(* migration.rs and the structs of data_format.rs's test_format_transition *)
(* under bincode: a struct is its fields one after the other, nested       *)
(* structs inline, nothing framing them.  Every field here is a u8 (one    *)
(* byte, T::default() = 0).  `stored` is get_stored_schema_version().      *)
(***************************************************************************)
CURRENT_SCHEMA_VERSION == 2

\* u8::deserialize on the input left
DeserializeU8(input) ==
    IF input = <<>>
    THEN [kind |-> "err", error |-> <<"BincodeError">>]
    ELSE [kind |-> "ok", value |-> input[1], rest |-> Tail(input)]

\* a helper that also defaults at the version itself
deserialize_default_if_lt_version_or_equal(VERSION, stored, input) ==
    IF stored <= VERSION
    THEN [kind |-> "ok", value |-> 0, rest |-> input]
    ELSE DeserializeU8(input)

deserialize_default_if_lt_version(VERSION, stored, input) ==
    IF stored < VERSION
    THEN [kind |-> "ok", value |-> 0, rest |-> input]
    ELSE DeserializeU8(input)

\* a helper that still reads the field at the version itself
deserialize_default_if_gt_version(VERSION, stored, input) ==
    IF stored > VERSION
    THEN [kind |-> "ok", value |-> 0, rest |-> input]
    ELSE DeserializeU8(input)

deserialize_default_if_gte_version(VERSION, stored, input) ==
    IF stored >= VERSION
    THEN [kind |-> "ok", value |-> 0, rest |-> input]
    ELSE DeserializeU8(input)

\* the fields in declaration order: `with` is the deserialize_with helper ("" for
\* none), `skip` is skip_serializing
Field(name, with, skip) == [name |-> name, with |-> with, skip |-> skip]

\* StateV1 { field1, map: NestedV1 { field1, field2 }, e, to_be_removed }
StateV1 ==
    <<Field("field1", "", FALSE), Field("map.field1", "", FALSE),
      Field("map.field2", "", FALSE), Field("e", "", FALSE),
      Field("deprecated", "", FALSE)>>

\* StateV2 { field1, map: NestedV2 { field1, field2, field3 }, e, field3, deprecated,
\* new_optional }
StateV2 ==
    <<Field("field1", "", FALSE), Field("map.field1", "", FALSE),
      Field("map.field2", "", FALSE), Field("map.field3", "lt", FALSE),
      Field("e", "", FALSE), Field("field3", "lt", FALSE),
      Field("deprecated", "gte", TRUE), Field("new_optional", "lt", FALSE)>>

FieldNames(struct) == {struct[i].name : i \in 1..Len(struct)}

\* #[derive(Serialize)]: every field that is not skip_serializing, in order
RECURSIVE Serialize(_, _)
Serialize(struct, value) ==
    IF struct = <<>> THEN <<>>
    ELSE (IF Head(struct).skip THEN <<>> ELSE <<value[Head(struct).name]>>)
            \o Serialize(Tail(struct), value)

\* #[derive(Deserialize)]: every field in order, each through its helper
RECURSIVE Deserialize(_, _, _, _)
Deserialize(struct, input, stored, acc) ==
    IF struct = <<>> THEN [kind |-> "ok", value |-> acc, rest |-> input]
    ELSE LET f == Head(struct)
             r == CASE f.with = "lt" ->
                         deserialize_default_if_lt_version(CURRENT_SCHEMA_VERSION,
                                                           stored, input)
                    [] f.with = "gte" ->
                         deserialize_default_if_gte_version(CURRENT_SCHEMA_VERSION,
                                                            stored, input)
                    [] OTHER -> DeserializeU8(input)
         IN  IF r.kind # "ok" THEN r
             ELSE Deserialize(Tail(struct), r.rest, stored, acc @@ (f.name :> r.value))

(***************************************************************************)
(* Input sets.                                                             *)
(***************************************************************************)
ContentLengths    == {0, 1, 255, 256}
SchemaVersions    == {0, 2}
InstructionCounts == {0, 65537}

HeaderInputs ==
    {MkHeader(hl, cl, cf, sv, pic) :
        hl \in 0..NumFields, cl \in ContentLengths, cf \in DataFormatType,
        sv \in SchemaVersions, pic \in InstructionCounts}

\* bytes that no as_bytes produced: every declared length up to and beyond
\* NumFields, words with high bytes set, every format tag, and truncated tails
RawFirstWords ==
    {ToLeBytes(k) : k \in {0, 1, 2, 3, NumFields, NumFields + 1, 256}}
        \cup {<<0, 0, 0, 0, 0, 0, 0, 1>>, <<NumFields, 0, 0, 0, 1, 0, 0, 0>>}

RawFieldWords(tag) ==
    ToLeBytes(1) \o ToLeBytes(tag) \o ToLeBytes(2) \o ToLeBytes(5) \o ToLeBytes(9)

RawHeaderBytes ==
    {first \o SubSeq(RawFieldWords(tag), 1, n) :
        first \in RawFirstWords, tag \in {0, 1, 3},
        n \in {0, U64_SIZE, NumFields * U64_SIZE, (NumFields + 1) * U64_SIZE}}

None == [kind |-> "none"]

\* the parts of the state a specification does not use
HeaderIdle == hpc = "off" /\ hin = DefaultHeader /\ hbytes = <<>> /\ hout = None
V2Idle     == wpc = "off" /\ win = None /\ wbuf = <<>> /\ wpos = 0
                /\ wsave = None /\ wout = None

(***************************************************************************)
(* SpecHeader: a header is encoded, and the bytes are decoded by the       *)
(* synchronous and by the asynchronous decoder.                            *)
(***************************************************************************)
HeaderEncode ==
    /\ hpc = "new"
    /\ hbytes' = as_bytes(hin)
    /\ hpc' = "encoded"
    /\ UNCHANGED <<hin, hout>>
    /\ UNCHANGED <<v2Vars, canisterVars, agentVars>>

HeaderDecodeSync ==
    /\ hpc \in {"encoded", "raw"}
    /\ hout' = [kind |-> "sync", result |-> new_from_reader(hbytes, 0)]
    /\ hpc' = IF hpc = "raw" THEN "decoded_raw" ELSE "decoded"
    /\ UNCHANGED <<hin, hbytes>>
    /\ UNCHANGED <<v2Vars, canisterVars, agentVars>>

HeaderDecodeAsync ==
    /\ hpc \in {"encoded", "raw"}
    /\ hout' = [kind |-> "async", result |-> new_from_reader_async(hbytes, 0)]
    /\ hpc' = IF hpc = "raw" THEN "decoded_raw" ELSE "decoded"
    /\ UNCHANGED <<hin, hbytes>>
    /\ UNCHANGED <<v2Vars, canisterVars, agentVars>>

(***************************************************************************)
(* SpecV2: v2::save at writer position p, then v2::restore from p.         *)
(***************************************************************************)
Garbage == [i \in 1..60 |-> 255]

\* a writer that holds, at p, the frame of an earlier save
PriorValue == <<2, 1>>

PriorBuf(p) ==
    v2_save(<<>>, p, PriorValue, new_from_format_and_schema("Bincode", 2),
            [skip_next_save |-> FALSE, post_upgrade_instruction_count |-> 0],
            0, NoLimit).buf

\* the writer fails only in the saves over an earlier frame
V2Inputs ==
    {i \in [t : Values,
            header : {MkHeader(hl, cl, cf, sv, 0) :
                         hl \in {0, NumFields}, cl \in {0, 7}, cf \in DataFormatType,
                         sv \in SchemaVersions},
            skip_next_save : BOOLEAN,
            p : {0, 3},
            instruction_counter : InstructionCounts,
            buf : {<<>>, Garbage, PriorBuf(0), PriorBuf(3)},
            budget : {NoLimit, 9, 26}] :
        IF i.buf \in {<<>>, Garbage}
        THEN i.budget = NoLimit
        ELSE i.buf = PriorBuf(i.p) /\ i.header.header_length = NumFields
                /\ i.header.content_length = 0}

V2Save ==
    /\ wpc = "new"
    /\ LET r == v2_save(wbuf, wpos, win.t, win.header,
                        [skip_next_save |-> win.skip_next_save,
                         post_upgrade_instruction_count |-> 0],
                        win.instruction_counter, win.budget)
       IN  /\ wbuf' = r.buf
           /\ wpos' = r.pos
           /\ wsave' = [kind |-> r.kind]
    /\ wpc' = "saved"
    /\ UNCHANGED <<win, wout>>
    /\ UNCHANGED <<headerVars, canisterVars, agentVars>>

\* the content_length word of the saved frame is replaced by another value (a frame
\* uploaded through restore_stable_storage need not have been written by save)
V2CorruptLength ==
    /\ wpc = "saved"
    /\ wsave.kind = "ok" /\ ~win.skip_next_save
    /\ \E cl \in {0, 7} :
         /\ cl # FromLeBytes(Slice(wbuf, win.p + U64_SIZE, U64_SIZE))
         /\ wbuf' = WriteAt(wbuf, win.p + U64_SIZE, ToLeBytes(cl))
    /\ wpc' = "corrupted"
    /\ UNCHANGED <<win, wpos, wsave, wout>>
    /\ UNCHANGED <<headerVars, canisterVars, agentVars>>

V2Restore ==
    /\ wpc \in {"saved", "corrupted"}
    /\ wout' = v2_restore(wbuf, win.p, win.instruction_counter, 0)
    /\ wpc' = IF wpc = "corrupted" THEN "restored_corrupted" ELSE "restored"
    /\ UNCHANGED <<win, wbuf, wpos, wsave>>
    /\ UNCHANGED <<headerVars, canisterVars, agentVars>>

(***************************************************************************)
(* interface.rs: the canister's stable memory and its endpoints.  Stable   *)
(* memory is a byte array whose length is a whole number of pages; a read  *)
(* or write outside it traps (the call is rejected, nothing changes).      *)
(***************************************************************************)
InBounds(mem, offset, n) == offset + n <= Len(mem)

PadToPages(buf) ==
    LET pages == (Len(buf) + WASM_PAGE_SIZE_IN_BYTES - 1) \div WASM_PAGE_SIZE_IN_BYTES
    IN  buf \o Zeros(pages * WASM_PAGE_SIZE_IN_BYTES - Len(buf))

\* stable64_grow(new_pages) adds new_pages pages
init_stable_storage(mem, n) ==
    LET page_count == n \div WASM_PAGE_SIZE_IN_BYTES + 1
        current    == Len(mem) \div WASM_PAGE_SIZE_IN_BYTES
    IN  IF page_count > current
        THEN mem \o Zeros(page_count * WASM_PAGE_SIZE_IN_BYTES)
        ELSE mem

backup_stable_storage(mem, offset, limit) == Slice(mem, offset, limit)

\* a canister that appends each window where the last one ended, ignoring offset
restore_stable_storage_ignoring_offset(mem, offset, bytes) ==
    [i \in 1..Len(mem) |-> IF i <= Len(bytes) THEN bytes[i] ELSE mem[i]]

restore_stable_storage(mem, offset, bytes) ==
    [i \in 1..Len(mem) |->
        IF i > offset /\ i <= offset + Len(bytes) THEN bytes[i - offset] ELSE mem[i]]

\* an endpoint that drops the flag it is given
set_restore_from_stable_storage_dropped(transient, flag) == transient

set_restore_from_stable_storage(transient, flag) ==
    [transient EXCEPT !.skip_next_save = flag]

\* the instruction counter the canister observes during an upgrade
CanisterInstructionCounts == {65537}

\* a snapshot file: what v2::save writes for t into an empty writer
SnapshotOf(t, format, version, instruction_counter) ==
    v2_save(<<>>, 0, t, new_from_format_and_schema(format, version),
            DefaultTransient, instruction_counter, NoLimit).buf

Done == {"done_ok", "done_err", "panicked"}

\* interface::v2::save in pre_upgrade, between transfers
CanisterSave ==
    /\ pc \in Done
    /\ \E ic \in CanisterInstructionCounts :
         LET h == [HEADER EXCEPT !.content_format = cfg.format,
                                 !.content_schema_version = cfg.version]
             r == v2_save(stable, 0, app_state, h, TRANSIENT, ic, NoLimit)
         IN  /\ stable' = PadToPages(r.buf)
             /\ last_op' = [op |-> "save", kind |-> r.kind]
    /\ UNCHANGED <<HEADER, TRANSIENT, STORED_SCHEMA_VERSION, app_state, cfg>>
    /\ UNCHANGED <<agentVars, headerVars, v2Vars>>

\* interface::v2::restore in post_upgrade, between transfers
CanisterRestore ==
    /\ pc \in Done
    /\ \E ic \in CanisterInstructionCounts :
         LET r == v2_restore(stable, 0, ic, STORED_SCHEMA_VERSION) IN
         /\ STORED_SCHEMA_VERSION' = r.version
         /\ IF r.kind = "ok"
            THEN /\ HEADER' = r.header
                 /\ TRANSIENT' = r.transient
                 /\ app_state' = r.t
            ELSE UNCHANGED <<HEADER, TRANSIENT, app_state>>
         /\ last_op' = [op |-> "restore", kind |-> r.kind]
    /\ UNCHANGED <<stable, cfg>>
    /\ UNCHANGED <<agentVars, headerVars, v2Vars>>

(***************************************************************************)
(* SpecMigration: test_format_transition.  A StateV1 value is serialized   *)
(* and the bytes deserialized as StateV2; a StateV2 value is serialized,   *)
(* deserialized, and the result serialized and deserialized once more.     *)
(* wbuf is the file, win the value at the start, wout the last result.     *)
(***************************************************************************)
FieldValues == {1, 2}

StoredVersions == 0..(CURRENT_SCHEMA_VERSION + 1)

MigrationSerializeV1 ==
    /\ wpc = "m_v1"
    /\ wbuf' = Serialize(StateV1, win)
    /\ wpc' = "m_v1_file"
    /\ UNCHANGED <<win, wpos, wsave, wout>>
    /\ UNCHANGED <<headerVars, canisterVars, agentVars>>

MigrationSerializeV2 ==
    /\ wpc = "m_v2"
    /\ wbuf' = Serialize(StateV2, win)
    /\ wpc' = "m_v2_file"
    /\ UNCHANGED <<win, wpos, wsave, wout>>
    /\ UNCHANGED <<headerVars, canisterVars, agentVars>>

\* the file is deserialized as StateV2
MigrationDeserializeV2 ==
    /\ wpc \in {"m_v1_file", "m_v2_file", "m_again_file"}
    /\ wout' = Deserialize(StateV2, wbuf, STORED_SCHEMA_VERSION, <<>>)
    /\ wpc' = CASE wpc = "m_v1_file" -> "m_migrated"
                [] wpc = "m_v2_file" -> "m_trip1"
                [] wpc = "m_again_file" -> "m_trip2"
    /\ UNCHANGED <<win, wbuf, wpos, wsave>>
    /\ UNCHANGED <<headerVars, canisterVars, agentVars>>

\* "another round trip serialization": the value just read is serialized again
MigrationSerializeAgain ==
    /\ wpc = "m_trip1" /\ wout.kind = "ok"
    /\ wbuf' = Serialize(StateV2, wout.value)
    /\ wsave' = wout
    /\ wpc' = "m_again_file"
    /\ UNCHANGED <<win, wpos, wout>>
    /\ UNCHANGED <<headerVars, canisterVars, agentVars>>

(***************************************************************************)
(* SpecCompat: a restore, as in post_upgrade, over a stable memory that    *)
(* holds a V1 blob, a V2 frame or neither, through each of the interface's *)
(* restore functions.  A panic traps: the call changes nothing.            *)
(***************************************************************************)
\* interface::v1_v2::restore: the StableReader of each attempt starts at 0
v1_v2_restore(mem, instruction_counter, version) ==
    LET r2 == v2_restore(mem, 0, instruction_counter, version) IN
    IF r2.kind = "ok" THEN r2 @@ [path |-> "v2"]
    ELSE IF r2.kind = "panic" THEN [kind |-> "panic", path |-> "v2", version |-> version]
    ELSE v1_restore(mem, 0, instruction_counter) @@ [path |-> "v1", version |-> r2.version]

\* HEADER.with(..) and TRANSIENT.with(..) after the `?`
Installed(r, ic, name) ==
    /\ STORED_SCHEMA_VERSION' = r.version
    /\ IF r.kind = "ok"
       THEN /\ HEADER' = r.header
            /\ TRANSIENT' = r.transient
            /\ app_state' = r.t
       ELSE UNCHANGED <<HEADER, TRANSIENT, app_state>>
    /\ last_op' = [op |-> name, kind |-> r.kind, ic |-> ic,
                   stored |-> STORED_SCHEMA_VERSION]
    /\ UNCHANGED <<stable, cfg>>
    /\ UNCHANGED <<agentVars, headerVars, v2Vars>>

InterfaceV1Restore ==
    /\ op = "none" /\ last_op = None
    /\ \E ic \in InstructionCounts :
         Installed(v1_restore(stable, 0, ic) @@ [version |-> STORED_SCHEMA_VERSION],
                   ic, "v1::restore")

InterfaceV2Restore ==
    /\ op = "none" /\ last_op = None
    /\ \E ic \in InstructionCounts :
         LET r == v2_restore(stable, 0, ic, STORED_SCHEMA_VERSION)
         IN  Installed(IF r.kind = "panic"
                       THEN [kind |-> "panic", version |-> STORED_SCHEMA_VERSION]
                       ELSE r, ic, "v2::restore")

InterfaceV1V2Restore ==
    /\ op = "none" /\ last_op = None
    /\ \E ic \in InstructionCounts :
         Installed(v1_v2_restore(stable, ic, STORED_SCHEMA_VERSION), ic, "v1_v2::restore")

\* v1::restore called on a reader of one's own (Read + Seek) that stands at p, the
\* bytes before p being something else; HEADER and TRANSIENT are not involved
V1RestoreAt ==
    /\ op = "none" /\ last_op = None
    /\ \E p \in {0, 3}, ic \in InstructionCounts :
         LET r == v1_restore(SubSeq(Garbage, 1, p) \o stable, p, ic) IN
         last_op' = [op |-> "v1::restore(reader)", kind |-> r.kind, ic |-> ic,
                     stored |-> STORED_SCHEMA_VERSION, start |-> p, result |-> r]
    /\ UNCHANGED <<stable, HEADER, TRANSIENT, STORED_SCHEMA_VERSION, app_state, cfg>>
    /\ UNCHANGED <<agentVars, headerVars, v2Vars>>

\* what stable memory may hold when post_upgrade runs
CompatRegions ==
    {PadToPages(r) : r \in
        {v1_save(<<>>, 0, t).buf : t \in Values}
          \cup {SnapshotOf(t, f, 2, ic) :
                   t \in Values, f \in {"MsgPack", "Bincode"}, ic \in InstructionCounts}
          \cup {WriteAt(SnapshotOf(<<1>>, f, 2, 0), (NumFields + 1) * U64_SIZE, <<193>>) :
                   f \in {"MsgPack", "Bincode"}}
          \cup {first \o RawFieldWords(tag) :
                   first \in RawFirstWords, tag \in {0, 1, 3}}
          \cup {<<>>, Zeros(1)}}

(***************************************************************************)
(* stable_storage_restore_backup.rs: CanisterAgent::restore_stable_storage *)
(***************************************************************************)
\* Option<u64>: None is the empty sequence and Some(x) is <<x>>
NoOffset == <<>>

Some(x) == <<x>>

unwrap_or(option, default) == IF option = <<>> THEN default ELSE option[1]

\* an update call returns Ok after the canister executed it; it returns Err either
\* without the canister having executed it or after (the reply was lost)
UpdateOutcomes == {"ok", "err_applied", "err_lost"}

Executed(outcome) == outcome \in {"ok", "err_applied"}

NoTasks == <<>>

InFlight == DOMAIN tasks

\* a buffer that takes one future more than its limit
TryBufferUnorderedHasRoom_off_by_one(n) == n <= BufferLimit

\* try_buffer_unordered(10): the stream is polled while fewer futures are queued
TryBufferUnorderedHasRoom(n) == n < BufferLimit

\* a strategy that is consulted once more than it has delays
RetriesLeft_one_more(attempts) == attempts - 1 <= RetryTake

\* tokio_retry: after a failed attempt the next delay is taken from the strategy,
\* ExponentialBackoff...take(5); the error is returned when the strategy is exhausted.
\* `attempts` counts the attempts made so far, the failed one included.
RetriesLeft(attempts) == attempts - 1 < RetryTake

\* an upload error that is logged and dropped: the stream goes on
OnUploadError_ignored == "r_windows"

\* .try_for_each(..).await? : the first error ends restore_stable_storage
OnUploadError == "done_err"

\* the flag sent as false
RestoreFlag_false == FALSE

\* candid::Encode!(&true) for set_restore_from_stable_storage
RestoreFlag == TRUE

\* a window one byte short
WindowSize_one_short(offset, h, header_bytes_len) ==
    Min(RESTORE_CHUNK_SIZE, h.content_length - (offset - header_bytes_len)) - 1

\* the window the stream yields at `offset`
WindowSize(offset, h, header_bytes_len) ==
    Min(RESTORE_CHUNK_SIZE, h.content_length - (offset - header_bytes_len))

RestoreReadHeader ==
    /\ op = "restore" /\ pc = "start"
    /\ LET hr == new_from_reader_async(reader, 0) IN
       CASE hr.kind = "ok" ->
              /\ header' = hr.header
              /\ len' = num_content_and_header_bytes(hr.header)
              /\ reader_pos' = hr.pos
              /\ pc' = "r_init"
              /\ error' = error
         [] hr.kind = "err" ->
              /\ pc' = "done_err"
              /\ error' = [kind |-> "header", detail |-> hr.error]
              /\ UNCHANGED <<header, len, reader_pos>>
         [] OTHER ->
              /\ pc' = "panicked"
              /\ UNCHANGED <<error, header, len, reader_pos>>
    /\ UNCHANGED <<op, out_of_order, reader, restore_offset, next_offset, tasks,
                   uploaded, reapplied, set_flag_sent, calls, backupVars>>
    /\ UNCHANGED <<canisterVars, headerVars, v2Vars>>

\* an init error that is dropped: the header upload follows all the same
AfterInit_error_ignored(outcome) == "r_header"

\* self.update("init_stable_storage", bytes).await? : an Err ends the restore
AfterInit(outcome) == IF outcome = "ok" THEN "r_header" ELSE "done_err"

\* self.update("init_stable_storage", len)
RestoreInit ==
    /\ op = "restore" /\ pc = "r_init"
    /\ \E outcome \in UpdateOutcomes :
         /\ stable' = IF Executed(outcome) THEN init_stable_storage(stable, len)
                                            ELSE stable
         /\ pc' = AfterInit(outcome)
         /\ error' = IF outcome = "ok" THEN error ELSE [kind |-> "init"]
         /\ calls' = Append(calls, [method |-> "init_stable_storage", arg |-> len,
                                     ok |-> outcome = "ok"])
    /\ UNCHANGED <<HEADER, TRANSIENT, STORED_SCHEMA_VERSION, app_state, cfg, last_op>>
    /\ UNCHANGED <<op, header, len, out_of_order, reader, reader_pos, restore_offset,
                   next_offset, tasks, uploaded, reapplied, set_flag_sent, backupVars>>
    /\ UNCHANGED <<headerVars, v2Vars>>

\* self.update("restore_stable_storage", (0, header_bytes)); then the stream starts
\* at restore_offset.unwrap_or(header_bytes_len)
RestoreHeader ==
    /\ op = "restore" /\ pc = "r_header"
    /\ LET header_bytes == as_bytes(header)
           header_bytes_len == Len(header_bytes)
           fits == InBounds(stable, 0, header_bytes_len)
       IN  \E outcome \in UpdateOutcomes :
             /\ Executed(outcome) => fits
             /\ stable' = IF Executed(outcome)
                           THEN restore_stable_storage(stable, 0, header_bytes)
                           ELSE stable
             /\ IF outcome = "ok"
                THEN /\ pc' = "r_windows"
                     /\ next_offset' = unwrap_or(restore_offset, header_bytes_len)
                     /\ error' = error
                ELSE /\ pc' = "done_err"
                     /\ error' = [kind |-> "header_upload"]
                     /\ UNCHANGED next_offset
             /\ calls' = Append(calls, [method |-> "restore_stable_storage", arg |-> 0,
                                         ok |-> outcome = "ok"])
    /\ UNCHANGED <<HEADER, TRANSIENT, STORED_SCHEMA_VERSION, app_state, cfg, last_op>>
    /\ UNCHANGED <<op, header, len, out_of_order, reader, reader_pos, restore_offset,
                   tasks, uploaded, reapplied, set_flag_sent, backupVars>>
    /\ UNCHANGED <<headerVars, v2Vars>>

\* the stream yields the next window (read_exact from the reader) and its upload
\* future is queued and started: Retry::spawn(.., || self.restore(buf, len, offset))
RestorePull ==
    /\ op = "restore" /\ pc = "r_windows"
    /\ TryBufferUnorderedHasRoom(Cardinality(InFlight))
    /\ next_offset < len
    /\ LET size == WindowSize(next_offset, header, Len(as_bytes(header))) IN
       IF Len(reader) < reader_pos + size
       THEN \* read_exact fails: the stream's error ends the restore
            /\ pc' = "done_err"
            /\ error' = [kind |-> "read"]
            /\ tasks' = NoTasks
            /\ UNCHANGED <<reader_pos, next_offset, calls>>
       ELSE /\ tasks' = tasks @@
                   (next_offset :> [buf |-> Slice(reader, reader_pos, size),
                                    attempts |-> 1, status |-> "running",
                                    cur_applied |-> FALSE, napplied |-> 0])
            /\ reader_pos' = reader_pos + size
            /\ next_offset' = next_offset + RESTORE_CHUNK_SIZE
            /\ calls' = Append(calls, [method |-> "restore_stable_storage",
                                        arg |-> next_offset])
            /\ UNCHANGED <<pc, error>>
    /\ UNCHANGED <<op, header, len, out_of_order, reader, restore_offset, uploaded,
                   reapplied, set_flag_sent, backupVars>>
    /\ UNCHANGED <<canisterVars, headerVars, v2Vars>>

\* the canister executes the request of the current attempt of window o
RemoteApply(o) ==
    /\ op = "restore" /\ pc = "r_windows"
    /\ o \in DOMAIN tasks
    /\ tasks[o].status = "running" /\ ~tasks[o].cur_applied
    /\ tasks[o].napplied < MaxApply
    /\ InBounds(stable, o, Len(tasks[o].buf))
    /\ stable' = restore_stable_storage(stable, o, tasks[o].buf)
    /\ tasks' = [tasks EXCEPT ![o].cur_applied = TRUE, ![o].napplied = @ + 1]
    /\ reapplied' = (reapplied \/ tasks[o].napplied >= 1)
    /\ UNCHANGED <<HEADER, TRANSIENT, STORED_SCHEMA_VERSION, app_state, cfg, last_op>>
    /\ UNCHANGED <<pc, commonVars, reader, reader_pos, restore_offset, next_offset,
                   uploaded, set_flag_sent, calls, backupVars>>
    /\ UNCHANGED <<headerVars, v2Vars>>

\* requests of earlier attempts of window o that failed at the agent and that the
\* canister has not executed yet
StaleRequests(task) ==
    (task.attempts - 1) - (task.napplied - (IF task.cur_applied THEN 1 ELSE 0))

\* the canister executes the request of an earlier, already failed attempt
RemoteApplyStale(o) ==
    /\ op = "restore" /\ pc = "r_windows"
    /\ o \in DOMAIN tasks
    /\ StaleRequests(tasks[o]) > 0
    /\ tasks[o].napplied < MaxApply
    /\ InBounds(stable, o, Len(tasks[o].buf))
    /\ stable' = restore_stable_storage(stable, o, tasks[o].buf)
    /\ tasks' = [tasks EXCEPT ![o].napplied = @ + 1]
    /\ reapplied' = (reapplied \/ tasks[o].napplied >= 1)
    /\ UNCHANGED <<HEADER, TRANSIENT, STORED_SCHEMA_VERSION, app_state, cfg, last_op>>
    /\ UNCHANGED <<pc, commonVars, reader, reader_pos, restore_offset, next_offset,
                   uploaded, set_flag_sent, calls, backupVars>>
    /\ UNCHANGED <<headerVars, v2Vars>>

\* the attempt of window o returns Ok: the upload future completes and leaves the
\* queue of try_buffer_unordered
AttemptOk(o) ==
    /\ op = "restore" /\ pc = "r_windows"
    /\ o \in DOMAIN tasks
    /\ tasks[o].status = "running" /\ tasks[o].cur_applied
    /\ tasks' = [q \in DOMAIN tasks \ {o} |-> tasks[q]]
    /\ uploaded' = uploaded \cup {o}
    /\ out_of_order' = (out_of_order \/ \E q \in InFlight : q < o)
    /\ UNCHANGED <<pc, op, error, header, len, reader, reader_pos, restore_offset,
                   next_offset, reapplied, set_flag_sent, calls, backupVars>>
    /\ UNCHANGED <<canisterVars, headerVars, v2Vars>>

\* the attempt of window o returns Err: Retry sleeps before the next attempt, or
\* gives the error back once the strategy is exhausted, which ends the restore
\* (the stream and the queued futures are dropped)
AttemptErr(o) ==
    /\ op = "restore" /\ pc = "r_windows"
    /\ o \in DOMAIN tasks
    /\ tasks[o].status = "running"
    /\ IF RetriesLeft(tasks[o].attempts)
       THEN /\ tasks' = [tasks EXCEPT ![o].status = "sleeping"]
            /\ UNCHANGED <<pc, error>>
       ELSE /\ tasks' = NoTasks
            /\ pc' = OnUploadError
            /\ error' = [kind |-> "upload", offset |-> o,
                          attempts |-> tasks[o].attempts]
    /\ UNCHANGED <<op, header, len, out_of_order, reader, reader_pos, restore_offset,
                   next_offset, uploaded, reapplied, set_flag_sent, calls, backupVars>>
    /\ UNCHANGED <<canisterVars, headerVars, v2Vars>>

\* the delay is over: Retry runs the action again
RetryWake(o) ==
    /\ op = "restore" /\ pc = "r_windows"
    /\ o \in DOMAIN tasks
    /\ tasks[o].status = "sleeping"
    /\ tasks' = [tasks EXCEPT ![o].status = "running", ![o].attempts = @ + 1,
                              ![o].cur_applied = FALSE]
    /\ UNCHANGED <<pc, commonVars, reader, reader_pos, restore_offset, next_offset,
                   uploaded, reapplied, set_flag_sent, calls, backupVars>>
    /\ UNCHANGED <<canisterVars, headerVars, v2Vars>>

\* the stream is exhausted and every upload future has completed:
\* self.update("set_restore_from_stable_storage", true), then Ok(())
RestoreSetFlag ==
    /\ op = "restore" /\ pc = "r_windows"
    /\ next_offset >= len
    /\ InFlight = {}
    /\ \E outcome \in UpdateOutcomes :
         /\ TRANSIENT' = IF Executed(outcome)
                          THEN set_restore_from_stable_storage(TRANSIENT, RestoreFlag)
                          ELSE TRANSIENT
         /\ IF outcome = "ok"
            THEN pc' = "done_ok" /\ error' = error
            ELSE pc' = "done_err" /\ error' = [kind |-> "set_flag"]
    /\ set_flag_sent' = TRUE
    /\ tasks' = NoTasks
    /\ calls' = Append(calls, [method |-> "set_restore_from_stable_storage",
                                flag |-> RestoreFlag])
    /\ UNCHANGED <<stable, HEADER, STORED_SCHEMA_VERSION, app_state, cfg, last_op>>
    /\ UNCHANGED <<op, header, len, out_of_order, reader, reader_pos, restore_offset,
                   next_offset, uploaded, reapplied, backupVars>>
    /\ UNCHANGED <<headerVars, v2Vars>>

(***************************************************************************)
(* stable_storage_restore_backup.rs: CanisterAgent::backup_stable_storage  *)
(***************************************************************************)
\* .buffered(10): the stream is polled while fewer futures are queued
BufferedHasRoom(n) == n < BufferLimit

\* backup_stable_storage_chunk: self.query("backup_stable_storage", ..).await?
\* is not wrapped in Retry: no attempt follows a failed one
BackupChunkRetries(attempts) == FALSE

\* let count = len / BACKUP_CHUNK_SIZE + 1
ChunkCount(n) == n \div BACKUP_CHUNK_SIZE + 1

\* buffer_unordered(): any finished future can be the next item
NextItems_unordered(q) == {i \in 1..Len(q) : q[i].status # "pending"}

\* .buffered(): FuturesOrdered gives the results in the order of the stream, so
\* only the oldest queued future can be the next item
NextItems(q) == IF q # <<>> /\ q[1].status # "pending" THEN {1} ELSE {}

RemoveAt(q, i) == SubSeq(q, 1, i - 1) \o SubSeq(q, i + 1, Len(q))

\* a check that takes every header for an initialized one
NotInitialized_never(h) == FALSE

\* if header.content_format == DataFormatType::Unknown
NotInitialized(h) == h.content_format = "Unknown"

\* get_stable_storage_info, the Unknown check and the length
BackupInfo ==
    /\ op = "backup" /\ pc = "start"
    /\ \E outcome \in {"ok", "err"} :
         IF outcome = "err"
         THEN /\ pc' = "done_err"
              /\ error' = [kind |-> "info"]
              /\ UNCHANGED <<header, len>>
         ELSE /\ header' = HEADER
              /\ IF NotInitialized(HEADER)
                 THEN /\ pc' = "done_err"
                      /\ error' = [kind |-> "CanisterStableStorageNotInitialized"]
                      /\ UNCHANGED len
                 ELSE /\ pc' = "b_fetch"
                      /\ len' = num_all_fields_bytes(HEADER) + HEADER.content_length
                      /\ error' = error
    /\ UNCHANGED <<op, out_of_order, restoreVars, backupVars>>
    /\ UNCHANGED <<canisterVars, headerVars, v2Vars>>

\* the next backup_stable_storage_chunk(offset, len) future is queued and started
BackupPull ==
    /\ op = "backup" /\ pc = "b_fetch"
    /\ BufferedHasRoom(Len(queue))
    /\ next_idx < ChunkCount(len)
    /\ LET offset == next_idx * BACKUP_CHUNK_SIZE
           entry  == IF len <= offset
                     THEN [idx |-> next_idx, offset |-> offset, limit |-> 0,
                           status |-> "ok", bytes |-> <<>>, attempts |-> 0]
                     ELSE [idx |-> next_idx, offset |-> offset,
                           limit |-> Min(BACKUP_CHUNK_SIZE, len - offset),
                           status |-> "pending", bytes |-> <<>>, attempts |-> 1]
       IN  queue' = Append(queue, entry)
    /\ next_idx' = next_idx + 1
    /\ UNCHANGED <<pc, commonVars, restoreVars, writer, total_written, flushed,
                   fetch_failed, short_reply, sink>>
    /\ UNCHANGED <<canisterVars, headerVars, v2Vars>>

\* the canister answers the query of the i-th queued future
FetchOk(i) ==
    /\ op = "backup" /\ pc = "b_fetch"
    /\ i \in 1..Len(queue)
    /\ queue[i].status = "pending"
    /\ InBounds(stable, queue[i].offset, queue[i].limit)
    /\ queue' = [queue EXCEPT
                    ![i].status = "ok",
                    ![i].bytes = backup_stable_storage(stable, queue[i].offset,
                                                       queue[i].limit)]
    /\ out_of_order' = (out_of_order \/ \E j \in 1..(i - 1) : queue[j].status = "pending")
    /\ UNCHANGED <<pc, op, error, header, len, restoreVars, next_idx, writer,
                   total_written, flushed, fetch_failed, short_reply, sink>>
    /\ UNCHANGED <<canisterVars, headerVars, v2Vars>>

\* the reply to the query of the i-th queued future holds fewer bytes than were
\* asked for (the agent decodes whatever ByteBuf the remote returns)
FetchShort(i) ==
    /\ op = "backup" /\ pc = "b_fetch"
    /\ i \in 1..Len(queue)
    /\ queue[i].status = "pending"
    /\ queue[i].limit > 0
    /\ InBounds(stable, queue[i].offset, queue[i].limit)
    /\ queue' = [queue EXCEPT
                    ![i].status = "ok",
                    ![i].bytes = backup_stable_storage(stable, queue[i].offset,
                                                       queue[i].limit - 1)]
    /\ short_reply' = TRUE
    /\ UNCHANGED <<pc, commonVars, restoreVars, next_idx, writer, total_written,
                   flushed, fetch_failed, sink>>
    /\ UNCHANGED <<canisterVars, headerVars, v2Vars>>

\* the query of the i-th queued future fails
FetchErr(i) ==
    /\ op = "backup" /\ pc = "b_fetch"
    /\ i \in 1..Len(queue)
    /\ queue[i].status = "pending"
    /\ queue' = IF BackupChunkRetries(queue[i].attempts)
                 THEN [queue EXCEPT ![i].attempts = @ + 1]
                 ELSE [queue EXCEPT ![i].status = "err"]
    /\ fetch_failed' = TRUE
    /\ UNCHANGED <<pc, commonVars, restoreVars, next_idx, writer, total_written, flushed,
                   short_reply, sink>>
    /\ UNCHANGED <<canisterVars, headerVars, v2Vars>>

\* forward(): the next item of the buffered stream is counted and written to the
\* sink; an Err item ends the backup
BackupYield ==
    /\ op = "backup" /\ pc = "b_fetch"
    /\ \E i \in NextItems(queue) :
         IF queue[i].status = "ok"
         THEN /\ writer' = writer \o queue[i].bytes
              /\ total_written' = total_written + Len(queue[i].bytes)
              /\ queue' = RemoveAt(queue, i)
              /\ sink' = "write"
              /\ UNCHANGED <<pc, error>>
         ELSE /\ pc' = "done_err"
              /\ error' = [kind |-> "fetch", idx |-> queue[i].idx,
                            attempts |-> queue[i].attempts]
              /\ queue' = <<>>
              /\ UNCHANGED <<writer, total_written, sink>>
    /\ UNCHANGED <<op, header, len, out_of_order, restoreVars, next_idx, flushed,
                   fetch_failed, short_reply>>
    /\ UNCHANGED <<canisterVars, headerVars, v2Vars>>

\* forward(): while the stream is pending (the oldest queued fetch has not
\* completed) the sink is flushed: IntoSink::poll_flush calls the writer's poll_flush
ForwardFlush ==
    /\ op = "backup" /\ pc = "b_fetch"
    /\ queue # <<>> /\ NextItems(queue) = {}
    /\ sink # "flush"
    /\ sink' = "flush"
    /\ UNCHANGED <<pc, commonVars, restoreVars, next_idx, queue, writer, total_written,
                   flushed, fetch_failed, short_reply>>
    /\ UNCHANGED <<canisterVars, headerVars, v2Vars>>

\* a check that lets a short backup pass
LengthMismatch_only_longer(written, expected) == written > expected

\* if total_written != len
LengthMismatch(written, expected) == written # expected

\* the stream is exhausted: forward() closes the sink (IntoSink::poll_close writes
\* what is buffered and closes the writer); then the length check and writer.flush()
BackupFinish ==
    /\ op = "backup" /\ pc = "b_fetch"
    /\ next_idx = ChunkCount(len)
    /\ queue = <<>>
    /\ sink' = "close"
    /\ IF LengthMismatch(total_written, len)
       THEN /\ pc' = "done_err"
            /\ error' = [kind |-> "BackupLengthMismatch", expected |-> len,
                          actual |-> total_written]
            /\ UNCHANGED flushed
       ELSE /\ flushed' = TRUE
            /\ pc' = "done_ok"
            /\ error' = error
    /\ UNCHANGED <<op, header, len, out_of_order, restoreVars, next_idx, queue, writer,
                   total_written, fetch_failed, short_reply>>
    /\ UNCHANGED <<canisterVars, headerVars, v2Vars>>

(***************************************************************************)
(* Initial states and specifications.                                      *)
(***************************************************************************)
CanisterConfigs == [format : {"MsgPack", "Bincode"}, version : {2}]

\* a canister that was just installed
Fresh(t, c) ==
    /\ stable = <<>>
    /\ HEADER = DefaultHeader
    /\ TRANSIENT = DefaultTransient
    /\ STORED_SCHEMA_VERSION = 0
    /\ app_state = t
    /\ cfg = c
    /\ last_op = None

\* a canister that saved t in pre_upgrade and restored it in post_upgrade
Upgraded(t, c) ==
    \E ic \in CanisterInstructionCounts :
      LET mem == PadToPages(SnapshotOf(t, c.format, c.version, ic))
          r   == v2_restore(mem, 0, ic, 0)
      IN  /\ stable = mem
          /\ HEADER = r.header
          /\ TRANSIENT = r.transient
          /\ STORED_SCHEMA_VERSION = r.version
          /\ app_state = r.t
          /\ cfg = c
          /\ last_op = None

CanisterIdle == Fresh(<<>>, [format |-> "MsgPack", version |-> 0])

AgentStart ==
    /\ error = None /\ header = DefaultHeader /\ len = 0 /\ out_of_order = FALSE
    /\ reader_pos = 0 /\ next_offset = 0
    /\ tasks = NoTasks /\ uploaded = {} /\ reapplied = FALSE /\ set_flag_sent = FALSE
    /\ calls = <<>>
    /\ next_idx = 0 /\ queue = <<>> /\ writer = <<>> /\ total_written = 0
    /\ flushed = FALSE /\ fetch_failed = FALSE /\ short_reply = FALSE /\ sink = "none"

AgentIdle ==
    /\ op = "none" /\ pc = "off" /\ reader = <<>> /\ restore_offset = NoOffset
    /\ AgentStart

\* snapshot files given to restore_stable_storage: valid V2 frames, one whose last
\* byte is missing, and a header alone (content_length 0)
RestoreInputs ==
    {SnapshotOf(<<1>>, "MsgPack", 2, 0),
     SnapshotOf(<<>>, "Bincode", 2, 0),
     SnapshotOf(<<1, 2>>, "Bincode", 2, 0),
     SubSeq(SnapshotOf(<<>>, "Bincode", 2, 0), 1, 47),
     as_bytes(new_from_format_and_schema("MsgPack", 2))}

\* restore_offest: None, or Some(x) with x one window into the content
RestoreOffsets == {NoOffset, Some((NumFields + 1) * U64_SIZE + RESTORE_CHUNK_SIZE)}

InitBackup ==
    /\ op = "backup" /\ pc = "start" /\ reader = <<>> /\ restore_offset = NoOffset
    /\ AgentStart
    /\ \/ \E t \in Values, c \in CanisterConfigs : Upgraded(t, c)
       \/ Fresh(<<>>, [format |-> "MsgPack", version |-> 2])

InitRestore ==
    /\ op = "restore" /\ pc = "start" /\ reader \in RestoreInputs
    /\ restore_offset \in RestoreOffsets
    /\ AgentStart
    /\ \/ Fresh(<<1>>, [format |-> "Bincode", version |-> 2])
       \/ Upgraded(<<2, 1>>, [format |-> "MsgPack", version |-> 2])

Init == (InitBackup \/ InitRestore) /\ HeaderIdle /\ V2Idle

Next ==
    \/ RestoreReadHeader
    \/ RestoreInit
    \/ RestoreHeader
    \/ RestorePull
    \/ \E o \in DOMAIN tasks : RemoteApply(o)
    \/ \E o \in DOMAIN tasks : RemoteApplyStale(o)
    \/ \E o \in DOMAIN tasks : AttemptOk(o)
    \/ \E o \in DOMAIN tasks : AttemptErr(o)
    \/ \E o \in DOMAIN tasks : RetryWake(o)
    \/ RestoreSetFlag
    \/ BackupInfo
    \/ BackupPull
    \/ \E i \in 1..Len(queue) : FetchOk(i)
    \/ \E i \in 1..Len(queue) : FetchErr(i)
    \/ \E i \in 1..Len(queue) : FetchShort(i)
    \/ ForwardFlush
    \/ BackupYield
    \/ BackupFinish
    \/ CanisterSave
    \/ CanisterRestore

Spec == Init /\ [][Next]_vars

InitHeader ==
    /\ \/ hpc = "new" /\ hin \in HeaderInputs /\ hbytes = <<>>
       \/ hpc = "raw" /\ hin = DefaultHeader /\ hbytes \in RawHeaderBytes
    /\ hout = None
    /\ V2Idle /\ CanisterIdle /\ AgentIdle

NextHeader ==
    \/ HeaderEncode
    \/ HeaderDecodeSync
    \/ HeaderDecodeAsync

SpecHeader == InitHeader /\ [][NextHeader]_vars

InitV2 ==
    /\ wpc = "new" /\ win \in V2Inputs /\ wbuf = win.buf /\ wpos = win.p
    /\ wsave = None /\ wout = None
    /\ HeaderIdle /\ CanisterIdle /\ AgentIdle

NextV2 ==
    \/ V2Save
    \/ V2CorruptLength
    \/ V2Restore

SpecV2 == InitV2 /\ [][NextV2]_vars

InitMigration ==
    /\ \/ wpc = "m_v1" /\ win \in [FieldNames(StateV1) -> FieldValues]
       \/ wpc = "m_v2" /\ win \in [FieldNames(StateV2) -> FieldValues]
    /\ wbuf = <<>> /\ wpos = 0 /\ wsave = None /\ wout = None
    /\ STORED_SCHEMA_VERSION \in StoredVersions
    /\ stable = <<>> /\ HEADER = DefaultHeader /\ TRANSIENT = DefaultTransient
    /\ app_state = <<>> /\ cfg = [format |-> "Bincode", version |-> 0]
    /\ last_op = None
    /\ HeaderIdle /\ AgentIdle

NextMigration ==
    \/ MigrationSerializeV1
    \/ MigrationSerializeV2
    \/ MigrationDeserializeV2
    \/ MigrationSerializeAgain

SpecMigration == InitMigration /\ [][NextMigration]_vars

InitCompat ==
    /\ stable \in CompatRegions
    /\ HEADER = DefaultHeader /\ TRANSIENT = DefaultTransient
    /\ STORED_SCHEMA_VERSION \in {0, 5}
    /\ app_state = <<>>
    /\ cfg = [format |-> "MsgPack", version |-> 0]
    /\ last_op = None
    /\ HeaderIdle /\ V2Idle /\ AgentIdle

NextCompat ==
    \/ InterfaceV1Restore
    \/ InterfaceV2Restore
    \/ InterfaceV1V2Restore
    \/ V1RestoreAt

SpecCompat == InitCompat /\ [][NextCompat]_vars

(***************************************************************************)
(* Properties.                                                             *)
(***************************************************************************)
ValidFormat(f) == f \in {"MsgPack", "Bincode"}

Encoded(f, t) == IF f = "MsgPack" THEN MsgPackSerialize(t) ELSE BincodeSerialize(t)

\* the header at the start of the snapshot file given to restore_stable_storage
InputHeader == new_from_reader_async(reader, 0)

\* the file holds a valid V2 frame: a 40-byte header followed by the content
ValidFrame ==
    /\ InputHeader.kind = "ok"
    /\ InputHeader.header.header_length = NumFields
    /\ Len(reader) >= (NumFields + 1) * U64_SIZE + InputHeader.header.content_length

InputTotal == (NumFields + 1) * U64_SIZE + InputHeader.header.content_length

\* the offsets of the content windows of a restore that starts after the header
AllWindows ==
    {o \in (NumFields + 1) * U64_SIZE .. InputTotal - 1 :
        (o - (NumFields + 1) * U64_SIZE) % RESTORE_CHUNK_SIZE = 0}

\* the offsets of the content windows of the restore at hand, which starts at
\* restore_offset when one is given
WindowsToUpload ==
    LET first == unwrap_or(restore_offset, (NumFields + 1) * U64_SIZE)
    IN  {o \in first .. InputTotal - 1 : (o - first) % RESTORE_CHUNK_SIZE = 0}

\* C1: a restore without restore_offset that returns Ok has made the remote region
\* [0, 40 + content_length) equal to the first 40 + content_length bytes of the
\* input, whatever the completion order of the window uploads and however often
\* the remote executed a retried window.
C1_RestoreUploadsInput ==
    (op = "restore" /\ pc = "done_ok" /\ restore_offset = NoOffset
        /\ ValidFrame /\ last_op = None)
    => /\ InBounds(stable, 0, InputTotal)
       /\ Slice(stable, 0, InputTotal) = Slice(reader, 0, InputTotal)

C1_Witness ==
    /\ op = "restore" /\ pc = "done_ok" /\ restore_offset = NoOffset
    /\ ValidFrame /\ last_op = None
    /\ out_of_order /\ reapplied
    /\ Cardinality(uploaded) >= 3

\* C2: if every query returned exactly the bytes asked for, a backup that returns Ok
\* has written to the writer exactly the remote region [0, total), total =
\* num_all_fields_bytes() + content_length, in increasing offset order, whatever the
\* completion order of the fetch calls.
C2_BackupWritesRegion ==
    (op = "backup" /\ pc = "done_ok" /\ last_op = None /\ ~short_reply)
    => /\ len = num_all_fields_bytes(HEADER) + HEADER.content_length
       /\ InBounds(stable, 0, len)
       /\ writer = Slice(stable, 0, len)

C2_Witness ==
    /\ op = "backup" /\ pc = "done_ok" /\ last_op = None /\ ~short_reply
    /\ out_of_order
    /\ len > 2 * BACKUP_CHUNK_SIZE

\* C3: with skip_next_save = false, a MsgPack or Bincode header and a writer that
\* accepts every byte, v2::save at
\* position p followed by v2::restore from p returns the saved value and a header
\* whose content_length is the number of content bytes written after the 40-byte
\* header, whose format and schema version are those given to save, and whose
\* header_length is NumFields.
C3_SaveRestoreRoundTrip ==
    (wpc = "restored" /\ ~win.skip_next_save /\ ValidFormat(win.header.content_format)
        /\ win.budget = NoLimit)
    => LET content == Encoded(win.header.content_format, win.t) IN
       /\ wsave.kind = "ok"
       /\ wout.kind = "ok"
       /\ wout.t = win.t
       /\ wout.header.content_length = Len(content)
       /\ Slice(wbuf, win.p + (NumFields + 1) * U64_SIZE, Len(content)) = content
       /\ win.buf = <<>> =>
             Len(wbuf) = win.p + (NumFields + 1) * U64_SIZE + wout.header.content_length
       /\ wout.header.content_format = win.header.content_format
       /\ wout.header.content_schema_version = win.header.content_schema_version
       /\ wout.header.header_length = NumFields

C3_Witness ==
    /\ wpc = "restored" /\ ~win.skip_next_save
    /\ win.header.content_format = "Bincode" /\ win.header.header_length = 0
    /\ win.header.content_length = 7
    /\ win.t = <<1, 2>> /\ win.p = 3 /\ win.buf = Garbage
    /\ wout.kind = "ok" /\ wout.t = win.t /\ wout.header.content_length = 10

\* C4 (as stated): decoding the encoding of a valid header h, header_length <=
\* NumFields, gives back h in all five fields.
C4_Original ==
    (hpc = "decoded" /\ ValidFormat(hin.content_format)
        /\ hin.header_length <= NumFields)
    => /\ hout.result.kind = "ok"
       /\ hout.result.header = hin

\* C4 (amended): decoding the encoding of a valid header h, with either decoder,
\* gives back h's content_length, content_format, content_schema_version and
\* pre_upgrade_instruction_count, and header_length = NumFields: it gives back h
\* itself exactly when h.header_length = NumFields.
C4_HeaderRoundTrip ==
    (hpc = "decoded" /\ ValidFormat(hin.content_format)
        /\ hin.header_length <= NumFields)
    => /\ hout.result.kind = "ok"
       /\ hout.result.header = [hin EXCEPT !.header_length = NumFields]
       /\ hout.result.pos = Len(hbytes)

C4_Witness ==
    /\ hpc = "decoded" /\ hout.kind = "async"
    /\ hin.content_format = "Bincode" /\ hin.header_length = NumFields
    /\ hin.content_length = 256 /\ hin.pre_upgrade_instruction_count = 65537
    /\ hout.result.kind = "ok" /\ hout.result.header = hin

\* C5: after a restore upload returned Ok the canister's skip_next_save is true;
\* a v2::save with the flag set returns Ok and leaves stable memory as it is; a
\* successful v2::restore installs a Transient with skip_next_save = false; a
\* v2::save with the flag clear writes the state; and the flag is never set
\* unless a restore has uploaded every window and sent the flag.
C5_SkipNextSave ==
    /\ []((op = "restore" /\ pc = "done_ok" /\ last_op = None)
            => TRANSIENT.skip_next_save)
    /\ [](TRANSIENT.skip_next_save
            => (op = "restore" /\ set_flag_sent /\ uploaded = WindowsToUpload))
    /\ [][(CanisterSave /\ TRANSIENT.skip_next_save)
            => (stable' = stable /\ last_op'.kind = "ok")]_vars
    /\ [][(CanisterRestore /\ last_op'.kind = "ok")
            => ~TRANSIENT'.skip_next_save]_vars
    /\ [][(CanisterSave /\ ~TRANSIENT.skip_next_save)
            => (/\ last_op'.kind = "ok"
                /\ v2_restore(stable', 0, 0, 0).kind = "ok"
                /\ v2_restore(stable', 0, 0, 0).t = app_state)]_vars

C5_Witness ==
    /\ op = "restore" /\ pc = "done_ok" /\ set_flag_sent
    /\ last_op = [op |-> "save", kind |-> "ok"]
    /\ ~TRANSIENT.skip_next_save
    /\ HEADER = InputHeader.header
    /\ Slice(stable, 0, InputTotal) # Slice(reader, 0, InputTotal)

\* C6: v2::save with skip_next_save = true returns Ok and leaves the writer's bytes
\* and its position as they were.
C6_SkippedSaveWritesNothing ==
    (wpc \in {"saved", "restored"} /\ win.skip_next_save)
    => /\ wsave.kind = "ok"
       /\ wbuf = win.buf
       /\ wpos = win.p

C6_Witness ==
    /\ wpc = "saved" /\ win.skip_next_save
    /\ win.buf = Garbage /\ win.p = 3 /\ win.header.content_format = "Unknown"
    /\ wsave.kind = "ok"

\* C7: once a window upload has failed on all of its attempts the restore has
\* returned that error, the agent does nothing more (no further upload, no
\* set_restore_from_stable_storage); set_restore_from_stable_storage is sent only
\* when every window upload has returned Ok.
C7_UploadFailureIsFatal ==
    /\ [](error.kind = "upload" => (pc = "done_err" /\ ~set_flag_sent))
    /\ [](set_flag_sent
            => (error.kind # "upload" /\ tasks = NoTasks /\ next_offset >= len
                /\ (restore_offset = NoOffset => uploaded = AllWindows)))
    /\ [][error.kind = "upload" => UNCHANGED agentVars]_vars

C7_Witness ==
    /\ error.kind = "upload" /\ pc = "done_err"
    /\ uploaded # {}
    /\ next_offset < len
    /\ ~set_flag_sent /\ ~TRANSIENT.skip_next_save

\* C8 (as stated): a window upload is attempted at most 5 times, and the restore
\* fails after the 5th failure of the same window.
C8_Original ==
    /\ \A o \in DOMAIN tasks : tasks[o].attempts <= RetryTake
    /\ error.kind = "upload" => error.attempts = RetryTake

\* C8 (amended): a window upload is attempted at most 6 times, the first try and
\* the 5 retries of the strategy, and the restore fails after the 6th failure of
\* the same window.
C8_UploadAttempts ==
    /\ \A o \in DOMAIN tasks : tasks[o].attempts <= RetryTake + 1
    /\ error.kind = "upload" => (error.attempts = RetryTake + 1 /\ pc = "done_err")

C8_Witness ==
    /\ error.kind = "upload" /\ error.attempts = RetryTake + 1 /\ pc = "done_err"

\* C9: a fetch call that fails is retried a bounded number of times before the
\* backup fails: a backup that has failed on a fetch has tried that window more
\* than once.
C9_FetchIsRetried ==
    (op = "backup" /\ pc = "done_err" /\ error.kind = "fetch") => error.attempts > 1

\* C10: at most BufferLimit fetch calls are outstanding during a backup and at
\* most BufferLimit window uploads are in flight during a restore, a window that
\* waits between two attempts included.
C10_BoundedConcurrency ==
    /\ Cardinality({i \in 1..Len(queue) : queue[i].status = "pending"}) <= BufferLimit
    /\ Len(queue) <= BufferLimit
    /\ Cardinality(DOMAIN tasks) <= BufferLimit

C10_Witness ==
    /\ op = "restore" /\ pc = "r_windows"
    /\ Cardinality(DOMAIN tasks) = BufferLimit
    /\ \E o \in DOMAIN tasks : tasks[o].status = "sleeping"
    /\ next_offset < len

\* C11: in a restore the header is read from the input before any remote call;
\* the first call is init_stable_storage(num_content_and_header_bytes), the second,
\* issued only after init returned Ok, is the header upload to offset 0, and window
\* uploads (and the final flag) are issued only after the header upload returned
\* Ok; a failed header read, init or header upload is the last thing the agent does.
C11_RestoreCallOrder ==
    op = "restore" =>
    /\ calls # <<>> => (InputHeader.kind = "ok" /\ header = InputHeader.header)
    /\ \A i \in 1..Len(calls) :
          /\ i = 1 => /\ calls[1].method = "init_stable_storage"
                      /\ calls[1].arg = num_content_and_header_bytes(header)
          /\ i = 2 => /\ calls[1].ok
                      /\ calls[2].method = "restore_stable_storage"
                      /\ calls[2].arg = 0
          /\ i >= 3 => /\ calls[1].ok /\ calls[2].ok
                       /\ calls[i].method \in {"restore_stable_storage",
                                                "set_restore_from_stable_storage"}
                       /\ calls[i].method = "restore_stable_storage"
                             => calls[i].arg >= Len(as_bytes(header))
    /\ (error.kind = "header" \/ pc = "panicked") => calls = <<>>
    /\ error.kind = "init" => (Len(calls) = 1 /\ ~calls[1].ok /\ pc = "done_err")
    /\ error.kind = "header_upload" => (Len(calls) = 2 /\ ~calls[2].ok /\ pc = "done_err")

C11_Witness ==
    /\ op = "restore" /\ pc = "done_ok"
    /\ Len(calls) = 6
    /\ calls[1].ok /\ calls[2].ok
    /\ calls[3].arg = 40 /\ calls[5].arg = 40 + 2 * RESTORE_CHUNK_SIZE
    /\ calls[6].method = "set_restore_from_stable_storage"

\* the header interface::v2::save hands to v2::save with the canister's settings
SaveHeader == [HEADER EXCEPT !.content_format = cfg.format,
                             !.content_schema_version = cfg.version]

\* C12 (as stated): once restore_stable_storage has returned Ok the canister's
\* skip_next_save is false.
C12_Original ==
    (op = "restore" /\ pc = "done_ok" /\ last_op = None) => ~TRANSIENT.skip_next_save

\* C12 (amended): once restore_stable_storage has returned Ok the canister's
\* skip_next_save is true (the agent's last call sets it), so that the canister's
\* next v2::save returns Ok without writing and the uploaded region stays as it is.
C12_RestoreSetsSkipFlag ==
    (op = "restore" /\ pc = "done_ok" /\ last_op = None)
    => /\ TRANSIENT.skip_next_save
       /\ calls[Len(calls)] = [method |-> "set_restore_from_stable_storage",
                                flag |-> TRUE]
       /\ \A ic \in CanisterInstructionCounts :
             LET r == v2_save(stable, 0, app_state, SaveHeader, TRANSIENT, ic, NoLimit)
             IN  r.kind = "ok" /\ r.buf = stable

C12_Witness ==
    /\ op = "restore" /\ pc = "done_ok" /\ last_op = None
    /\ TRANSIENT.skip_next_save
    /\ ValidFrame /\ Slice(stable, 0, InputTotal) = Slice(reader, 0, InputTotal)
    /\ app_state = <<2, 1>> /\ HEADER # InputHeader.header

\* C13 (as stated): a backup whose fetched bytes do not add up to total fails with
\* BackupLengthMismatch(total, actual) and the writer has not been flushed; a backup
\* returns Ok only when they add up, and then the writer has been flushed.
C13_Original ==
    /\ error.kind = "BackupLengthMismatch"
         => /\ pc = "done_err"
            /\ error.expected = num_all_fields_bytes(header) + header.content_length
            /\ error.actual = Len(writer) /\ error.actual # error.expected
            /\ ~flushed /\ sink \notin {"flush", "close"}
    /\ (op = "backup" /\ pc = "done_ok")
         => /\ Len(writer) = num_all_fields_bytes(header) + header.content_length
            /\ flushed

\* C13 (amended): a backup whose fetched bytes do not add up to total fails with
\* BackupLengthMismatch(total, actual) without its final writer.flush(), the sink
\* having been closed by forward() with every fetched byte written; a backup
\* returns Ok only when they add up, and then writer.flush() has been called.
C13_LengthCheck ==
    /\ error.kind = "BackupLengthMismatch"
         => /\ pc = "done_err"
            /\ error.expected = num_all_fields_bytes(header) + header.content_length
            /\ error.actual = Len(writer) /\ error.actual # error.expected
            /\ ~flushed /\ sink = "close"
    /\ (op = "backup" /\ pc = "done_ok")
         => /\ Len(writer) = num_all_fields_bytes(header) + header.content_length
            /\ flushed /\ sink = "close"
    /\ (op = "backup" /\ pc = "done_err"
           /\ error.kind \notin {"BackupLengthMismatch"}) => (~flushed /\ sink # "close")

C13_Witness ==
    /\ op = "backup" /\ pc = "done_err"
    /\ error.kind = "BackupLengthMismatch"
    /\ error.expected = (NumFields + 1) * U64_SIZE + U64_SIZE + 2
    /\ error.actual = error.expected - 1
    /\ Len(writer) = error.actual
    /\ ~fetch_failed

\* C14: a backup whose stable_storage_info header has content_format Unknown fails
\* with CanisterStableStorageNotInitialized, has issued no fetch and has written
\* nothing to the writer; a backup of any other header does not fail that way.
C14_UninitializedBackup ==
    (op = "backup" /\ pc # "start" /\ error.kind # "info" /\ last_op = None)
    => IF HEADER.content_format = "Unknown"
       THEN /\ pc = "done_err"
            /\ error.kind = "CanisterStableStorageNotInitialized"
            /\ header = HEADER
            /\ next_idx = 0 /\ queue = <<>>
            /\ writer = <<>> /\ total_written = 0
            /\ ~flushed /\ sink = "none"
       ELSE error.kind # "CanisterStableStorageNotInitialized"

C14_Witness ==
    /\ op = "backup" /\ pc = "done_err" /\ last_op = None
    /\ HEADER.content_format = "Unknown"
    /\ error.kind = "CanisterStableStorageNotInitialized"
    /\ header = HEADER /\ queue = <<>> /\ writer = <<>>

\* the first word of the bytes given to the decoder, and the format tag behind it
DeclaredLength == FromLeBytes(Slice(hbytes, 0, U64_SIZE))
StoredTag == FromLeBytes(Slice(hbytes, 2 * U64_SIZE, U64_SIZE))

\* C15: decoding (sync or async) bytes whose first little-endian u64 exceeds
\* NumFields fails with InvalidHeaderLength(declared, NumFields) with the reader
\* left right behind the first 8 bytes; no decoded header has header_length >
\* NumFields.
C15_HeaderLengthChecked ==
    hpc \in {"decoded", "decoded_raw"} =>
    /\ (Len(hbytes) >= U64_SIZE /\ DeclaredLength > NumFields)
          => /\ hout.result.kind = "err"
             /\ hout.result.error = <<"InvalidHeaderLength", DeclaredLength, NumFields>>
             /\ hout.result.pos = U64_SIZE
    /\ hout.result.kind = "ok" => hout.result.header.header_length <= NumFields
    /\ (hout.result.kind = "err" /\ hout.result.error[1] = "InvalidHeaderLength")
          => DeclaredLength > NumFields

C15_Witness ==
    /\ hpc = "decoded_raw" /\ hout.kind = "async"
    /\ DeclaredLength = NumFields + 1
    /\ Len(hbytes) = U64_SIZE + (NumFields + 1) * U64_SIZE
    /\ hout.result.kind = "err"
    /\ hout.result.error = <<"InvalidHeaderLength", NumFields + 1, NumFields>>

\* C16: decoding a header whose stored format decodes to Unknown fails with
\* InvalidContentFormat(tag), tag being the stored format tag.
C16_InvalidFormatCarriesTag ==
    (/\ hpc = "decoded_raw"
     /\ DeclaredLength = NumFields
     /\ Len(hbytes) >= (NumFields + 1) * U64_SIZE
     /\ FormatFromU64(StoredTag) = "Unknown")
    => /\ hout.result.kind = "err"
       /\ hout.result.error = <<"InvalidContentFormat", StoredTag>>

\* C17: v2::restore of a frame whose stored content_length differs from the number
\* of bytes its content decoder consumed, the content decoding successfully,
\* returns Ok with the decoded value and with the header as stored: the mismatch is
\* not an error.
C17_LengthMismatchTolerated ==
    wpc = "restored_corrupted" =>
    LET stored   == new_from_reader(wbuf, win.p)
        consumed == Len(Encoded(win.header.content_format, win.t))
    IN  /\ stored.kind = "ok"
        /\ stored.header.content_length # consumed
        /\ wout.kind = "ok"
        /\ wout.t = win.t
        /\ wout.content_length = consumed
        /\ wout.header = stored.header

C17_Witness ==
    /\ wpc = "restored_corrupted"
    /\ win.t = <<2, 1>> /\ win.header.content_format = "Bincode" /\ win.p = 3
    /\ wout.kind = "ok" /\ wout.t = <<2, 1>>
    /\ wout.header.content_length = 7
    /\ wout.content_length = U64_SIZE + 2

\* C18: v1_v2::restore returns what v2::restore returns when that succeeds, and
\* otherwise what v1::restore returns reading from the start; HEADER and TRANSIENT
\* are those of the path that succeeded, and are untouched when neither does.
C18_FallbackToV1 ==
    (last_op # None /\ last_op.op = "v1_v2::restore") =>
    LET r2 == v2_restore(stable, 0, last_op.ic, 0)
        r1 == v1_restore(stable, 0, last_op.ic)
        r  == IF r2.kind = "ok" THEN r2 ELSE r1
    IN  /\ last_op.kind = r.kind
        /\ IF r.kind = "ok"
           THEN app_state = r.t /\ HEADER = r.header /\ TRANSIENT = r.transient
           ELSE HEADER = DefaultHeader /\ TRANSIENT = DefaultTransient

\* C19: if v2::save over a region that holds a valid V2 frame returns an error, a
\* following v2::restore still returns the value of that frame.
C19_FailedSaveKeepsFrame ==
    (wpc = "restored" /\ win.buf = PriorBuf(win.p) /\ wsave.kind = "err")
    => /\ wout.kind = "ok"
       /\ wout.t = PriorValue

\* C20: v2::restore sets the active schema version to the decoded header's
\* content_schema_version once the header is decoded, whatever the content decode
\* then returns; if the header decode fails the version is left as it was.
C20_VersionSetAfterHeader ==
    (last_op # None /\ last_op.op = "v2::restore") =>
    LET hr == new_from_reader(stable, 0) IN
    IF hr.kind = "ok"
    THEN STORED_SCHEMA_VERSION = hr.header.content_schema_version
    ELSE STORED_SCHEMA_VERSION = last_op.stored

C20_Witness ==
    /\ last_op # None /\ last_op.op = "v2::restore" /\ last_op.kind = "err"
    /\ new_from_reader(stable, 0).kind = "ok"
    /\ new_from_reader(stable, 0).header.content_schema_version = 2
    /\ last_op.stored = 5
    /\ STORED_SCHEMA_VERSION = 2
    /\ HEADER = DefaultHeader

\* C21: a V2 save on the canister (interface::v2::save) sets the active schema
\* version to the content_schema_version it writes: once the save has written, the
\* migration layer's stored schema version is the one given to save.
C21_SaveSetsSchemaVersion ==
    (last_op # None /\ last_op.op = "save" /\ last_op.kind = "ok"
        /\ ~SkipsSave(TRANSIENT))
    => STORED_SCHEMA_VERSION = cfg.version

\* the fields StateV2 adds to StateV1 and the fields they share
AddedFields  == {"map.field3", "field3", "new_optional"}
CommonFields == {"field1", "map.field1", "map.field2", "e"}

HeldHeader ==
    /\ last_op # None /\ last_op.kind = "ok"
    /\ last_op.op \in {"v1::restore", "v2::restore", "v1_v2::restore"}

\* C24 (as stated): for every header the system holds (made by
\* new_from_format_and_schema, returned by the header decode or synthesized by
\* v1::restore) num_content_and_header_bytes() is the length of the encoded header
\* plus content_length, the total that backup uses.
C24_Original ==
    /\ \A f \in {"MsgPack", "Bincode"}, sv \in SchemaVersions :
          LET h == new_from_format_and_schema(f, sv)
          IN  num_content_and_header_bytes(h) = Len(as_bytes(h)) + h.content_length
    /\ HeldHeader
         => /\ num_content_and_header_bytes(HEADER)
                  = Len(as_bytes(HEADER)) + HEADER.content_length
            /\ Len(as_bytes(HEADER)) = num_all_fields_bytes(HEADER)

\* C24 (amended): the two sizes agree for the headers whose header_length is
\* NumFields, which are those made by new_from_format_and_schema and those returned
\* by the header decode; for the header synthesized by v1::restore, whose
\* header_length is 0, num_content_and_header_bytes() is 8 + content_length,
\* NumFields * 8 below the encoded length plus content_length that backup uses.
C24_RegionSize ==
    /\ \A f \in {"MsgPack", "Bincode"}, sv \in SchemaVersions :
          LET h == new_from_format_and_schema(f, sv)
          IN  num_content_and_header_bytes(h) = Len(as_bytes(h)) + h.content_length
    /\ HeldHeader
         => /\ Len(as_bytes(HEADER)) = num_all_fields_bytes(HEADER)
            /\ IF new_from_reader(stable, 0).kind = "ok"
               THEN /\ HEADER = new_from_reader(stable, 0).header
                    /\ HEADER.header_length = NumFields
                    /\ num_content_and_header_bytes(HEADER)
                          = Len(as_bytes(HEADER)) + HEADER.content_length
               ELSE /\ HEADER = v1_restore(stable, 0, last_op.ic).header
                    /\ HEADER.header_length = 0
                    /\ num_content_and_header_bytes(HEADER)
                          = U64_SIZE + HEADER.content_length
                    /\ num_content_and_header_bytes(HEADER) + NumFields * U64_SIZE
                          = num_all_fields_bytes(HEADER) + HEADER.content_length

C24_Witness ==
    /\ HeldHeader /\ last_op.op = "v1::restore"
    /\ app_state = <<1, 2>>
    /\ HEADER.content_format = "MsgPack" /\ HEADER.content_length = 3
    /\ num_content_and_header_bytes(HEADER) = U64_SIZE + 3

\* C25: the header decode, synchronous and asynchronous, is total: whatever the
\* bytes, declared lengths 0 to 3 included, it returns a Header or an Error and
\* never panics.
C25_HeaderDecodeTotal ==
    hpc \in {"decoded", "decoded_raw"} => hout.result.kind \in {"ok", "err"}

\* C26: in a restore with restore_offset = Some(x), 40 <= x < total, every content
\* window uploaded at remote offset o carries the input's bytes [o, o + size), size
\* = min(RESTORE_CHUNK_SIZE, total - o), so that a restore that returns Ok leaves
\* the remote region [x, total) equal to the input's bytes [x, total).
C26_ResumeUploadsInput ==
    (op = "restore" /\ restore_offset # NoOffset /\ ValidFrame
        /\ restore_offset[1] >= (NumFields + 1) * U64_SIZE
        /\ restore_offset[1] < InputTotal)
    => /\ \A o \in DOMAIN tasks :
             tasks[o].buf = Slice(reader, o, Min(RESTORE_CHUNK_SIZE, InputTotal - o))
       /\ (pc = "done_ok" /\ last_op = None)
             => Slice(stable, restore_offset[1], InputTotal - restore_offset[1])
                  = Slice(reader, restore_offset[1], InputTotal - restore_offset[1])

\* the offsets of the content-window uploads started so far, in the order started
WindowCalls ==
    LET idx == {i \in 3..Len(calls) : calls[i].method = "restore_stable_storage"}
    IN  [k \in 1..Cardinality(idx) |-> calls[k + 2].arg]

\* C27: in a restore without restore_offset the content windows have the offsets
\* 40 + k * RESTORE_CHUNK_SIZE below total = 40 + content_length and the sizes
\* min(RESTORE_CHUNK_SIZE, total - offset) > 0; they are read from the input one
\* after the other in increasing offset order, each holds the input's bytes at
\* [offset, offset + size), a restore that returns Ok has uploaded windows that
\* cover [40, total) exactly, and with content_length = 0 there is no window.
C27_WindowsCoverContent ==
    (op = "restore" /\ restore_offset = NoOffset /\ InputHeader.kind = "ok"
        /\ pc \notin {"start", "r_init", "r_header"})
    => LET first == (NumFields + 1) * U64_SIZE
           total == first + InputHeader.header.content_length
       IN  /\ \A k \in 1..Len(WindowCalls) :
                 /\ WindowCalls[k] = first + (k - 1) * RESTORE_CHUNK_SIZE
                 /\ WindowCalls[k] < total
           /\ \A o \in DOMAIN tasks :
                 /\ \E k \in 1..Len(WindowCalls) : WindowCalls[k] = o
                 /\ Len(tasks[o].buf) = Min(RESTORE_CHUNK_SIZE, total - o)
                 /\ Len(tasks[o].buf) > 0
                 /\ tasks[o].buf = Slice(reader, o, Len(tasks[o].buf))
           /\ uploaded \subseteq {WindowCalls[k] : k \in 1..Len(WindowCalls)}
           /\ reader_pos = Min(first + Len(WindowCalls) * RESTORE_CHUNK_SIZE, total)
           /\ pc = "done_ok"
                 => /\ uploaded = AllWindows
                    /\ Len(WindowCalls) = Cardinality(AllWindows)
                    /\ reader_pos = total
           /\ InputHeader.header.content_length = 0
                 => (WindowCalls = <<>> /\ tasks = NoTasks /\ uploaded = {})

C27_Witness ==
    /\ op = "restore" /\ restore_offset = NoOffset /\ pc = "done_ok"
    /\ InputHeader.kind = "ok"
    /\ Len(WindowCalls) >= 2
    /\ InputHeader.header.content_length % RESTORE_CHUNK_SIZE # 0
    /\ uploaded = AllWindows /\ out_of_order

\* C28: on the canister, once v2::save, v2::restore or the chunk writes of a
\* restore transfer have run, the header that stable_storage_info() returns (HEADER)
\* is the header stored at offset 0 of stable storage.
C28_InfoMatchesStoredHeader ==
    (last_op # None \/ (op = "restore" /\ pc = "done_ok"))
    => /\ new_from_reader(stable, 0).kind = "ok"
       /\ HEADER = new_from_reader(stable, 0).header

\* C29: when v1_v2::restore falls back to V1, the migration layer's stored schema
\* version is what it was before v1_v2::restore was called: the failed v2::restore
\* attempt has not changed it.
C29_FailedV2KeepsVersion ==
    (last_op # None /\ last_op.op = "v1_v2::restore"
        /\ v2_restore(stable, 0, last_op.ic, last_op.stored).kind = "err")
    => STORED_SCHEMA_VERSION = last_op.stored

\* C30: v1::restore, for a reader at any starting position, returns a Header whose
\* content_length is the number of bytes the decode consumed, whose content_format
\* is MsgPack and whose other fields are zero, and a Transient whose skip_next_save
\* is false.
C30_V1SynthesizedHeader ==
    (last_op # None /\ last_op.op = "v1::restore(reader)" /\ last_op.kind = "ok")
    => LET r == last_op.result
           consumed == Len(MsgPackSerialize(r.t))
       IN  /\ r.pos = last_op.start + consumed
           /\ r.header = MkHeader(0, consumed, "MsgPack", 0, 0)
           /\ ~r.transient.skip_next_save

====
